---- MODULE Spec2Model ----
(***************************************************************************)
(* kgrok: the client side of the session-multiplexing tunnel               *)
(* (src/tunnel.go).  Tunnel opens one duplex stream per forwarded port    *)
(* and runs ReceiveData and SendData on it; ReceiveData creates Sessions  *)
(* for fresh ids and starts one ReadFromSession per Session.              *)
(***************************************************************************)
EXTENDS Integers, Sequences, FiniteSets, TLC

\* ------------------------------------------------------------------ bounds
\* one forwarding pair: chunks of data a local connection delivers before
\* it can only end, and frames the remote relay delivers
MaxChunks == 2
MaxRecv == 3
\* two forwarding pairs: frames the remote relay delivers over both streams
MaxRecvPairs == 1
\* port specs given to ParsePorts
MaxSpecs == 2
\* one forwarding pair, two session ids: frames the remote relay delivers
MaxRecvSessions == 2
\* two forwarding pairs with one registry: frames the remote relay delivers
\* when the local connections deliver no data
MaxRecvShared == 2

\* the forwarding pairs Tunnel may be given (fps), in list order
Pairs == {1, 2}
\* the session ids (uuid) a remote relay may use
Ids == {"a", "b"}
\* a Session object: the id it carries and the pair whose ReceiveData made it
Sess == Ids \X Pairs
\* payloads of inbound frames: m.GetData() is empty or not
Payloads == {<<>>, <<9>>}

NoSession == <<"none", 0>>
Free == <<"free", 0>>
NoFrame == [id |-> "none", data |-> <<>>, close |-> FALSE]
Nil == [kind |-> "nil", cause |-> "nil", errs |-> {}]
NotReturned == [kind |-> "none", cause |-> "nil", errs |-> {}]

VARIABLES
    tpc,        \* Tunnel: "dial", "init", "wait", "returned"
    ti,         \* Tunnel: index in fps of the pair the for loop is at
    ctxDone,    \* the shared context (ctx of WithCancelCause) is done
    cause,      \* context.Cause(ctx): "nil", "Canceled", or a failure
    wg,         \* the WaitGroup counter
    errs,       \* errs of Tunnel: the non-nil SendData errors appended
    result,     \* what Tunnel returned (NotReturned until it returns)
    failed,     \* observation: the failures so far, <<kind, pair, cancelled>>:
                \* cancelled says the context was done before and caused it
    streamFailed, \* per pair: the duplex stream broke (transport failure)
    recv,       \* per pair: the ReceiveData goroutine
    send,       \* per pair: the SendData goroutine
    registry,   \* common.openSessions: id -> Session
    sessions,   \* per Session object: exists, Open, Buf, lock, done, closed
    reader,     \* per Session: the ReadFromSession goroutine
    wire,       \* per pair: the frames handed to stream.Send, with the outcome
    written,    \* per Session: number of payloads written to the connection
    fps,        \* the number of forwarding pairs in the list given to Tunnel
    chunkMax,   \* chunks a local connection delivers before it can only end
    nrecv,      \* frames the remote relay has still to deliver
    ids,        \* the session ids the remote relay uses
    ports,      \* ParsePorts: the port specs given (ports []string)
    pidx,       \* ParsePorts: index of the spec the range loop is at
    forwards,   \* ParsePorts: the ForwardedPorts appended so far
    parsed      \* ParsePorts: what it returned (NotParsed until it returns)

vars == <<tpc, ti, ctxDone, cause, wg, errs, result, failed, streamFailed,
          recv, send, registry, sessions, reader, wire, written, fps,
          chunkMax, nrecv, ids, ports, pidx, forwards, parsed>>

forwardVars == <<tpc, ti, ctxDone, cause, wg, errs, result, failed,
                 streamFailed, recv, send, registry, sessions, reader, wire,
                 written, fps, chunkMax, nrecv, ids>>
parseVars == <<ports, pidx, forwards, parsed>>

tunnelVars == <<tpc, ti, ctxDone, cause, wg, errs, result>>
sessionVars == <<registry, sessions, reader, written>>

\* ------------------------------------------------------------ environment
\* the stream's context is done: the shared context was cancelled, or the
\* stream itself finished with a transport failure
StreamDone(p) == ctxDone \/ streamFailed[p]

\* the k-th chunk conn.Read delivers on a connection is the byte k
Chunk(k) == <<k>>
ReadBytes(n) == [k \in 1..n |-> k]

\* the state of Tunnel's side when Tunnel is called with n forwarding pairs
InitForward(n, frames, chunks, used) ==
    /\ fps = n
    /\ ids = used
    /\ chunkMax = chunks
    /\ nrecv = frames
    /\ tpc = "dial"
    /\ ti = 1
    /\ ctxDone = FALSE
    /\ cause = "nil"
    /\ wg = 0
    /\ errs = {}
    /\ result = NotReturned
    /\ failed = {}
    /\ streamFailed = [p \in Pairs |-> FALSE]
    /\ recv = [p \in Pairs |-> [pc |-> "none", m |-> NoFrame, s |-> NoSession, ret |-> "none"]]
    /\ send = [p \in Pairs |-> [pc |-> "none", s |-> NoSession, resp |-> NoFrame, ret |-> "none"]]
    /\ registry = [i \in Ids |-> NoSession]
    /\ sessions = [s \in Sess |-> [exists |-> FALSE, Open |-> FALSE, Buf |-> <<>>,
                                   lock |-> Free, done |-> FALSE, closed |-> FALSE]]
    /\ reader = [s \in Sess |-> [pc |-> "none", nread |-> 0, napp |-> 0, last |-> "none"]]
    /\ wire = [p \in Pairs |-> <<>>]
    /\ written = [s \in Sess |-> 0]

\* ------------------------------------------------------------ ParsePorts
\* a string is the sequence of its characters
Digits == {"0", "1", "2", "3", "4", "5", "6", "7", "8", "9"}
DigitVal == [c \in Digits |->
                CASE c = "0" -> 0 [] c = "1" -> 1 [] c = "2" -> 2 [] c = "3" -> 3
                  [] c = "4" -> 4 [] c = "5" -> 5 [] c = "6" -> 6 [] c = "7" -> 7
                  [] c = "8" -> 8 [] c = "9" -> 9]

\* the port specs the command line may carry
PortStrings ==
    { <<"8", "0">>,                          \* 80
      <<"8", "0", "8", "0", ":", "8", "0">>, \* 8080:80
      <<":", "5", "0", "0", "0">>,           \* :5000
      <<"0", ":", "7">>,                     \* 0:7
      <<"6", "5", "5", "3", "5">>,           \* 65535
      <<"6", "5", "5", "3", "6">>,           \* 65536
      <<"7", ":", "6", "5", "5", "3", "6">>, \* 7:65536
      <<"0">>,                               \* 0
      <<"7", ":", "0">>,                     \* 7:0
      <<>>,                                  \* the empty string
      <<":">>,                               \* :
      <<"7", ":">>,                          \* 7:
      <<"1", ":", "2", ":", "3">>,           \* 1:2:3
      <<"a", ":", "8", "0">>,                \* a:80
      <<"8", "0", ":", "a">>,                \* 80:a
      <<"0", "0", "7">>,                     \* 007
      <<"+", "1">> }                         \* +1

\* ParseUint(s, 10, 16): base and bitSize
Base == 10
BitSize == 16

NotParsed == [forwards |-> <<>>, err |-> [kind |-> "none"]]
NoErr == [kind |-> "nil"]

\* strings.Split(s, ":"): the substrings between the separators, one more
\* than there are separators
RECURSIVE Split(_)
Split(s) ==
    IF \A i \in 1..Len(s) : s[i] # ":" THEN <<s>>
    ELSE LET i == CHOOSE j \in 1..Len(s) :
                      s[j] = ":" /\ \A k \in 1..(j - 1) : s[k] # ":"
         IN <<SubSeq(s, 1, i - 1)>> \o Split(SubSeq(s, i + 1, Len(s)))

\* the number a string of digits denotes in base 10
RECURSIVE Value(_)
Value(s) ==
    IF s = <<>> THEN 0
    ELSE Value(SubSeq(s, 1, Len(s) - 1)) * Base + DigitVal[s[Len(s)]]

\* strconv.ParseUint(s, 10, 16): no sign, digits only, at least one digit,
\* and the value fits in 16 bits
ParseUint(s) ==
    IF s = <<>> \/ \E i \in 1..Len(s) : s[i] \notin Digits
    THEN [ok |-> FALSE, val |-> 0, err |-> "syntax"]
    ELSE IF Value(s) > 2^BitSize - 1
    THEN [ok |-> FALSE, val |-> 2^BitSize - 1, err |-> "range"]
    ELSE [ok |-> TRUE, val |-> Value(s), err |-> "nil"]

\* localString without the default of an empty LOCAL
LocalString_NoDefault(parts) == parts[1]

\* localString and remoteString of a spec split in one or two parts
LocalString(parts) ==
    IF Len(parts) = 2 /\ parts[1] = <<>> THEN <<"0">> ELSE parts[1]

RemoteString(parts) == parts[Len(parts)]

\* an error return that keeps the pairs parsed so far
ParsePorts_Fail_Partial(e) ==
    /\ parsed' = [forwards |-> forwards, err |-> e]
    /\ UNCHANGED <<ports, pidx, forwards, forwardVars>>

\* return nil, fmt.Errorf(...)
ParsePorts_Fail(e) ==
    /\ parsed' = [forwards |-> <<>>, err |-> e]
    /\ UNCHANGED <<ports, pidx, forwards, forwardVars>>

\* a spec with more than one colon
ParsePorts_InvalidFormat ==
    /\ parsed = NotParsed
    /\ pidx <= Len(ports)
    /\ Len(Split(ports[pidx])) > 2
    /\ ParsePorts_Fail([kind |-> "format", spec |-> pidx,
                        arg |-> ports[pidx], cause |-> "nil"])

ParsePorts_LocalErr ==
    /\ parsed = NotParsed
    /\ pidx <= Len(ports)
    /\ LET parts == Split(ports[pidx])
       IN /\ Len(parts) <= 2
          /\ ~ParseUint(LocalString(parts)).ok
          /\ ParsePorts_Fail([kind |-> "local", spec |-> pidx,
                              arg |-> LocalString(parts),
                              cause |-> ParseUint(LocalString(parts)).err])

ParsePorts_RemoteErr ==
    /\ parsed = NotParsed
    /\ pidx <= Len(ports)
    /\ LET parts == Split(ports[pidx])
       IN /\ Len(parts) <= 2
          /\ ParseUint(LocalString(parts)).ok
          /\ ~ParseUint(RemoteString(parts)).ok
          /\ ParsePorts_Fail([kind |-> "remote", spec |-> pidx,
                              arg |-> RemoteString(parts),
                              cause |-> ParseUint(RemoteString(parts)).err])

ParsePorts_RemoteZero ==
    /\ parsed = NotParsed
    /\ pidx <= Len(ports)
    /\ LET parts == Split(ports[pidx])
       IN /\ Len(parts) <= 2
          /\ ParseUint(LocalString(parts)).ok
          /\ ParseUint(RemoteString(parts)).ok
          /\ ParseUint(RemoteString(parts)).val = 0
          /\ ParsePorts_Fail([kind |-> "zero", spec |-> pidx,
                              arg |-> <<>>, cause |-> "nil"])

\* forwards = append(forwards, ForwardedPort{localPort, remotePort})
ParsePorts_Append ==
    /\ parsed = NotParsed
    /\ pidx <= Len(ports)
    /\ LET parts == Split(ports[pidx])
       IN /\ Len(parts) <= 2
          /\ ParseUint(LocalString(parts)).ok
          /\ ParseUint(RemoteString(parts)).ok
          /\ ParseUint(RemoteString(parts)).val # 0
          /\ forwards' = Append(forwards,
                 [Local |-> ParseUint(LocalString(parts)).val % 2^BitSize,
                  Remote |-> ParseUint(RemoteString(parts)).val % 2^BitSize])
    /\ pidx' = pidx + 1
    /\ UNCHANGED <<ports, parsed, forwardVars>>

\* return forwards, nil
ParsePorts_Return ==
    /\ parsed = NotParsed
    /\ pidx > Len(ports)
    /\ parsed' = [forwards |-> forwards, err |-> NoErr]
    /\ UNCHANGED <<ports, pidx, forwards, forwardVars>>

\* ------------------------------------------------------------------ Init
\* ParsePorts has returned n pairs for n specs (run() of main.go calls it
\* before Tunnel)
Parsed(n) ==
    /\ ports = [k \in 1..n |-> <<"8", "0">>]
    /\ pidx = n + 1
    /\ forwards = [k \in 1..n |-> [Local |-> ParseUint(<<"8", "0">>).val,
                                    Remote |-> ParseUint(<<"8", "0">>).val]]
    /\ parsed = [forwards |-> forwards, err |-> NoErr]

InitWith(n, frames, chunks, used) ==
    /\ Parsed(n)
    /\ InitForward(n, frames, chunks, used)

\* Tunnel is called with one forwarding pair; the relay uses one session id
Init == InitWith(1, MaxRecv, MaxChunks, {"a"})

\* Tunnel is called with two forwarding pairs; a local connection delivers
\* one chunk before it can only end
InitPairs == InitWith(2, MaxRecvPairs, 1, {"a"})

\* Tunnel is called with one forwarding pair; the relay uses two session
\* ids, and a local connection delivers one chunk before it can only end
InitSessions == InitWith(1, MaxRecvSessions, 1, Ids)

\* Tunnel is called with two forwarding pairs and the relay uses the same
\* session id on both streams: it delivers MaxRecvShared frames and the
\* local connections only end, or MaxRecvPairs frames and a local
\* connection delivers one chunk
InitShared ==
    \/ InitWith(2, MaxRecvShared, 0, {"a"})
    \/ InitWith(2, MaxRecvPairs, 1, {"a"})

\* ParsePorts is called with up to MaxSpecs port specs; Tunnel is not running
InitParse ==
    /\ ports \in UNION {[1..k -> PortStrings] : k \in 0..MaxSpecs}
    /\ pidx = 1
    /\ forwards = <<>>
    /\ parsed = NotParsed
    /\ InitForward(0, 0, 0, {})


\* ---------------------------------------------------------------- Tunnel
\* xerrors.WithWrapper(wrapper, err) as Tunnel calls it: a non-nil err comes
\* back wrapped, two nils give nil; for a nil err under a non-nil wrapper
\* the library returns nil or the bare wrapper, which the call does not show:
\* kind "bare" stands for that value
WithWrapper(wrapper, err) ==
    IF err # {} THEN [kind |-> "err", cause |-> wrapper, errs |-> err]
    ELSE IF wrapper = "nil" THEN Nil
    ELSE [kind |-> "bare", cause |-> wrapper, errs |-> {}]

\* cancel(c) of context.WithCancelCause: the first cancellation sets the cause
CancelCause(c) ==
    /\ ctxDone' = TRUE
    /\ cause' = IF ctxDone THEN cause ELSE c

\* the parent context (interrupt() of main.go) is cancelled: a plain cancel
ExternalCancel ==
    /\ tpc # "returned"
    /\ ~ctxDone
    /\ CancelCause("Canceled")
    /\ UNCHANGED <<tpc, ti, wg, errs, result, failed, streamFailed, recv, send,
                   registry, sessions, reader, wire, written, nrecv, fps, chunkMax, ids, parseVars>>

\* grpc.Dial and its error return
Tunnel_Dial ==
    /\ tpc = "dial"
    /\ \/ /\ tpc' = "init"
          /\ UNCHANGED <<result, failed>>
       \/ /\ tpc' = "returned"
          /\ result' = [kind |-> "err", cause |-> "DialErr", errs |-> {}]
          /\ failed' = failed \cup {<<"dial", 0, FALSE>>}
    /\ UNCHANGED <<ti, ctxDone, cause, wg, errs, streamFailed, recv, send,
                   registry, sessions, reader, wire, written, nrecv, fps, chunkMax, ids, parseVars>>

\* one iteration of the for loop that succeeds: InitTunnel, Send(req),
\* wg.Add(2) and the two go statements; after the last pair the loop ends
Tunnel_Launch ==
    /\ tpc = "init"
    /\ ti <= fps
    /\ ~ctxDone
    /\ wg' = wg + 2
    /\ recv' = [recv EXCEPT ![ti].pc = "recv"]
    /\ send' = [send EXCEPT ![ti].pc = "select"]
    /\ ti' = ti + 1
    /\ tpc' = IF ti = fps THEN "wait" ELSE "init"
    /\ UNCHANGED <<ctxDone, cause, errs, result, failed, streamFailed,
                   registry, sessions, reader, wire, written, nrecv, fps, chunkMax, ids, parseVars>>

\* an iteration that fails and breaks without cancelling the context
Tunnel_InitFail_NoCancel ==
    /\ tpc = "init"
    /\ ti <= fps
    /\ \E e \in {"InitErr", "InitSendErr"} :
          failed' = failed \cup {<<e, ti, ctxDone>>}
    /\ tpc' = "wait"
    /\ UNCHANGED <<ti, ctxDone, cause, wg, errs, result, streamFailed, recv, send,
                   registry, sessions, reader, wire, written, nrecv, fps, chunkMax, ids, parseVars>>

\* one iteration that fails: InitTunnel or the initial Send returns an error
\* (always so once ctx is done); cancel with the failure as cause, break
Tunnel_InitFail ==
    /\ tpc = "init"
    /\ ti <= fps
    /\ \E e \in {"InitErr", "InitSendErr"} :
          /\ CancelCause(e)
          /\ failed' = failed \cup {<<e, ti, ctxDone>>}
    /\ tpc' = "wait"
    /\ UNCHANGED <<ti, wg, errs, result, streamFailed, recv, send,
                   registry, sessions, reader, wire, written, nrecv, fps, chunkMax, ids, parseVars>>

\* a return that does not wait for the WaitGroup
Tunnel_Wait_NoWait ==
    /\ tpc = "wait"
    /\ tpc' = "returned"
    /\ result' = WithWrapper(cause, errs)
    /\ UNCHANGED <<ti, ctxDone, cause, wg, errs, failed, streamFailed, recv, send,
                   registry, sessions, reader, wire, written, nrecv, fps, chunkMax, ids, parseVars>>

\* wg.Wait() and the return
Tunnel_Wait ==
    /\ tpc = "wait"
    /\ wg = 0
    /\ tpc' = "returned"
    /\ result' = WithWrapper(cause, errs)
    /\ UNCHANGED <<ti, ctxDone, cause, wg, errs, failed, streamFailed, recv, send,
                   registry, sessions, reader, wire, written, nrecv, fps, chunkMax, ids, parseVars>>

\* the duplex stream of a launched pair breaks
StreamFail(p) ==
    /\ recv[p].pc # "none"
    /\ ~StreamDone(p)
    /\ streamFailed' = [streamFailed EXCEPT ![p] = TRUE]
    /\ UNCHANGED <<tpc, ti, ctxDone, cause, wg, errs, result, failed, recv, send,
                   registry, sessions, reader, wire, written, nrecv, fps, chunkMax, ids, parseVars>>

\* ----------------------------------------------------------- ReceiveData
\* the loop returns: the goroutine of Tunnel calls wg.Done()
ReceiveData_Return(p, r) ==
    /\ recv' = [recv EXCEPT ![p].pc = "done", ![p].ret = r,
                            ![p].m = NoFrame, ![p].s = NoSession]
    /\ wg' = wg - 1

\* a Recv that a done stream does not wake
ReceiveData_RecvErr_Blocks(p) ==
    /\ recv[p].pc = "recv"
    /\ streamFailed[p]
    /\ ReceiveData_Return(p, "RecvErr")
    /\ failed' = failed \cup {<<"recv", p, ~streamFailed[p]>>}
    /\ UNCHANGED <<tpc, ti, ctxDone, cause, errs, result, streamFailed, send,
                   registry, sessions, reader, wire, written, nrecv, fps, chunkMax, ids, parseVars>>

\* st.Recv() returns an error: the stream is done
ReceiveData_RecvErr(p) ==
    /\ recv[p].pc = "recv"
    /\ StreamDone(p)
    /\ ReceiveData_Return(p, "RecvErr")
    /\ failed' = failed \cup {<<"recv", p, ~streamFailed[p]>>}
    /\ UNCHANGED <<tpc, ti, ctxDone, cause, errs, result, streamFailed, send,
                   registry, sessions, reader, wire, written, nrecv, fps, chunkMax, ids, parseVars>>

\* st.Recv() returns a frame m of the remote relay (a RequestId that does
\* not parse stands for the zero uuid, one id among the others)
ReceiveData_Recv(p) ==
    /\ recv[p].pc = "recv"
    /\ ~StreamDone(p)
    /\ nrecv > 0
    /\ \E i \in ids, d \in Payloads, c \in BOOLEAN :
          recv' = [recv EXCEPT ![p].pc = "select",
                               ![p].m = [id |-> i, data |-> d, close |-> c]]
    /\ nrecv' = nrecv - 1
    /\ UNCHANGED <<tpc, ti, ctxDone, cause, wg, errs, result, failed, streamFailed,
                   send, registry, sessions, reader, wire, written, fps, chunkMax, ids, parseVars>>

\* case <-st.Context().Done(): Err() of a cancelled context is Canceled, so
\* the result is that of st.CloseSend()
ReceiveData_Cancelled(p) ==
    /\ recv[p].pc = "select"
    /\ StreamDone(p)
    /\ \E r \in {"nil", "CloseSendErr"} : ReceiveData_Return(p, r)
    /\ UNCHANGED <<tpc, ti, ctxDone, cause, errs, result, failed, streamFailed, send,
                   registry, sessions, reader, wire, written, nrecv, fps, chunkMax, ids, parseVars>>

\* a lookup that leaves session.Open alone on m.ShouldClose
ReceiveData_Lookup_KeepsOpen(p) ==
    /\ recv[p].pc = "select"
    /\ ~StreamDone(p)
    /\ LET s == registry[recv[p].m.id] IN
       IF s = NoSession
       THEN recv' = [recv EXCEPT ![p].pc = "dial"]
       ELSE recv' = [recv EXCEPT ![p].pc = "handle", ![p].s = s]
    /\ UNCHANGED <<tpc, ti, ctxDone, cause, wg, errs, result, failed, streamFailed,
                   send, registry, sessions, reader, wire, written, nrecv, fps, chunkMax, ids, parseVars>>

\* default: common.GetSession(requestId); a known session with
\* m.ShouldClose gets session.Open = false (no lock taken)
ReceiveData_Lookup(p) ==
    /\ recv[p].pc = "select"
    /\ ~StreamDone(p)
    /\ LET s == registry[recv[p].m.id] IN
       IF s = NoSession
       THEN /\ recv' = [recv EXCEPT ![p].pc = "dial"]
            /\ UNCHANGED sessions
       ELSE /\ recv' = [recv EXCEPT ![p].pc = "handle", ![p].s = s]
            /\ sessions' = IF recv[p].m.close
                           THEN [sessions EXCEPT ![s].Open = FALSE]
                           ELSE sessions
    /\ UNCHANGED <<tpc, ti, ctxDone, cause, wg, errs, result, failed, streamFailed,
                   send, registry, reader, wire, written, nrecv, fps, chunkMax, ids, parseVars>>

\* net.DialTimeout succeeds: common.NewSessionFromStream registers the
\* Session, go ReadFromSession starts its reader.  When the ReceiveData of
\* another pair has registered a Session for the id since the lookup, the
\* registry keeps that one or takes the new one
ReceiveData_DialOk(p) ==
    /\ recv[p].pc = "dial"
    /\ LET s == <<recv[p].m.id, p>> IN
       /\ ~sessions[s].exists
       /\ sessions' = [sessions EXCEPT ![s] =
              [exists |-> TRUE, Open |-> TRUE, Buf |-> <<>>, lock |-> Free,
               done |-> FALSE, closed |-> FALSE]]
       /\ \E r \in {s, registry[recv[p].m.id]} \ {NoSession} :
              registry' = [registry EXCEPT ![recv[p].m.id] = r]
       /\ reader' = [reader EXCEPT ![s].pc = "read"]
       /\ recv' = [recv EXCEPT ![p].pc = "handle", ![p].s = s]
    /\ UNCHANGED <<tpc, ti, ctxDone, cause, wg, errs, result, failed, streamFailed,
                   send, wire, written, nrecv, fps, chunkMax, ids, parseVars>>

\* a failed dial that registers a Session all the same
ReceiveData_DialFail_Registers(p) ==
    /\ recv[p].pc = "dial"
    /\ recv' = [recv EXCEPT ![p].pc = "reply"]
    /\ registry' = [registry EXCEPT ![recv[p].m.id] = <<recv[p].m.id, p>>]
    /\ UNCHANGED <<tpc, ti, ctxDone, cause, wg, errs, result, failed, streamFailed,
                   send, sessions, reader, wire, written, nrecv, fps, chunkMax, ids, parseVars>>

\* net.DialTimeout fails: build the close reply
ReceiveData_DialFail(p) ==
    /\ recv[p].pc = "dial"
    /\ recv' = [recv EXCEPT ![p].pc = "reply"]
    /\ UNCHANGED <<tpc, ti, ctxDone, cause, wg, errs, result, failed, streamFailed,
                   send, registry, sessions, reader, wire, written, nrecv, fps, chunkMax, ids, parseVars>>

\* st.Send(resp) of the close reply, its error only logged; continue
ReceiveData_Reply(p) ==
    /\ recv[p].pc = "reply"
    /\ wire' = [wire EXCEPT ![p] = Append(@,
                   [id |-> recv[p].m.id, data |-> <<>>, close |-> TRUE,
                    ok |-> ~StreamDone(p), by |-> "ReceiveData"])]
    /\ recv' = [recv EXCEPT ![p].pc = "recv", ![p].m = NoFrame]
    /\ UNCHANGED <<tpc, ti, ctxDone, cause, wg, errs, result, failed, streamFailed,
                   send, registry, sessions, reader, written, nrecv, fps, chunkMax, ids, parseVars>>

\* ------------------------------------------------------ handleStreamData
\* session.Close(): cancels session.Context, closes the connection
SessionClose(s) ==
    sessions' = [sessions EXCEPT ![s].done = TRUE, ![s].closed = TRUE,
                                 ![s].Open = FALSE]

\* a close that also takes the Session out of the registry
handleStreamData_Closed_Evicts(p) ==
    /\ recv[p].pc = "handle"
    /\ ~sessions[recv[p].s].Open
    /\ SessionClose(recv[p].s)
    /\ registry' = [registry EXCEPT ![recv[p].s[1]] = NoSession]
    /\ recv' = [recv EXCEPT ![p].pc = "recv", ![p].m = NoFrame, ![p].s = NoSession]
    /\ UNCHANGED <<tpc, ti, ctxDone, cause, wg, errs, result, failed, streamFailed,
                   send, reader, wire, written, nrecv, fps, chunkMax, ids, parseVars>>

\* if session.Open == false { session.Close(); return }
handleStreamData_Closed(p) ==
    /\ recv[p].pc = "handle"
    /\ ~sessions[recv[p].s].Open
    /\ SessionClose(recv[p].s)
    /\ recv' = [recv EXCEPT ![p].pc = "recv", ![p].m = NoFrame, ![p].s = NoSession]
    /\ UNCHANGED <<tpc, ti, ctxDone, cause, wg, errs, result, failed, streamFailed,
                   send, registry, reader, wire, written, nrecv, fps, chunkMax, ids, parseVars>>

\* the session is open and len(data) == 0: nothing to do
handleStreamData_Empty(p) ==
    /\ recv[p].pc = "handle"
    /\ sessions[recv[p].s].Open
    /\ recv[p].m.data = <<>>
    /\ recv' = [recv EXCEPT ![p].pc = "recv", ![p].m = NoFrame, ![p].s = NoSession]
    /\ UNCHANGED <<tpc, ti, ctxDone, cause, wg, errs, result, failed, streamFailed,
                   send, registry, sessions, reader, wire, written, nrecv, fps, chunkMax, ids, parseVars>>

\* the session is open and len(data) > 0: go on to session.Lock()
handleStreamData_Data(p) ==
    /\ recv[p].pc = "handle"
    /\ sessions[recv[p].s].Open
    /\ recv[p].m.data # <<>>
    /\ recv' = [recv EXCEPT ![p].pc = "wlock"]
    /\ UNCHANGED <<tpc, ti, ctxDone, cause, wg, errs, result, failed, streamFailed,
                   send, registry, sessions, reader, wire, written, nrecv, fps, chunkMax, ids, parseVars>>

\* session.Lock() before the write
handleStreamData_Lock(p) ==
    /\ recv[p].pc = "wlock"
    /\ sessions[recv[p].s].lock = Free
    /\ sessions' = [sessions EXCEPT ![recv[p].s].lock = <<"recv", p>>]
    /\ recv' = [recv EXCEPT ![p].pc = "write"]
    /\ UNCHANGED <<tpc, ti, ctxDone, cause, wg, errs, result, failed, streamFailed,
                   send, registry, reader, wire, written, nrecv, fps, chunkMax, ids, parseVars>>

\* session.Conn.Write(data) returns nil; session.Unlock()
handleStreamData_Write(p) ==
    /\ recv[p].pc = "write"
    /\ ~sessions[recv[p].s].closed
    /\ written' = [written EXCEPT ![recv[p].s] = @ + 1]
    /\ sessions' = [sessions EXCEPT ![recv[p].s].lock = Free]
    /\ recv' = [recv EXCEPT ![p].pc = "recv", ![p].m = NoFrame, ![p].s = NoSession]
    /\ UNCHANGED <<tpc, ti, ctxDone, cause, wg, errs, result, failed, streamFailed,
                   send, registry, reader, wire, nrecv, fps, chunkMax, ids, parseVars>>

\* a write error that ends the Receive Loop
handleStreamData_WriteErr_Fatal(p) ==
    /\ recv[p].pc = "write"
    /\ sessions' = [sessions EXCEPT ![recv[p].s].lock = Free,
                                    ![recv[p].s].done = TRUE,
                                    ![recv[p].s].closed = TRUE,
                                    ![recv[p].s].Open = FALSE]
    /\ ReceiveData_Return(p, "WriteErr")
    /\ UNCHANGED <<tpc, ti, ctxDone, cause, errs, result, failed, streamFailed,
                   send, registry, reader, wire, written, nrecv, fps, chunkMax, ids, parseVars>>

\* session.Conn.Write(data) returns an error; session.Unlock();
\* session.Close()
handleStreamData_WriteErr(p) ==
    /\ recv[p].pc = "write"
    /\ sessions' = [sessions EXCEPT ![recv[p].s].lock = Free,
                                    ![recv[p].s].done = TRUE,
                                    ![recv[p].s].closed = TRUE,
                                    ![recv[p].s].Open = FALSE]
    /\ recv' = [recv EXCEPT ![p].pc = "recv", ![p].m = NoFrame, ![p].s = NoSession]
    /\ UNCHANGED <<tpc, ti, ctxDone, cause, wg, errs, result, failed, streamFailed,
                   send, registry, reader, wire, written, nrecv, fps, chunkMax, ids, parseVars>>

\* -------------------------------------------------------- ReadFromSession
\* conn.Read returns br > 0 bytes and a nil error
ReadFromSession_Read(s) ==
    /\ reader[s].pc = "read"
    /\ ~sessions[s].closed
    /\ reader[s].nread < chunkMax
    /\ reader' = [reader EXCEPT ![s].pc = "check", ![s].nread = @ + 1,
                                ![s].last = "data"]
    /\ UNCHANGED <<tpc, ti, ctxDone, cause, wg, errs, result, failed, streamFailed,
                   recv, send, registry, sessions, wire, written, nrecv, fps, chunkMax, ids, parseVars>>

\* conn.Read returns io.EOF (the peer closed) or another error (always so
\* on a closed connection): session.Open = false, no lock taken
ReadFromSession_ReadErr(s) ==
    /\ reader[s].pc = "read"
    /\ \E e \in {"eof", "err"} :
          /\ e = "eof" => ~sessions[s].closed
          /\ reader' = [reader EXCEPT ![s].pc = "publish", ![s].last = e]
    /\ sessions' = [sessions EXCEPT ![s].Open = FALSE]
    /\ UNCHANGED <<tpc, ti, ctxDone, cause, wg, errs, result, failed, streamFailed,
                   recv, send, registry, wire, written, nrecv, fps, chunkMax, ids, parseVars>>

\* select: case <-session.Context.Done(): return, the chunk is dropped;
\* default: go on to session.Lock()
ReadFromSession_Select(s) ==
    /\ reader[s].pc = "check"
    /\ reader' = [reader EXCEPT ![s].pc = IF sessions[s].done THEN "done" ELSE "append"]
    /\ UNCHANGED <<tpc, ti, ctxDone, cause, wg, errs, result, failed, streamFailed,
                   recv, send, registry, sessions, wire, written, nrecv, fps, chunkMax, ids, parseVars>>

\* session.Lock(); session.Buf.Write(buff[0:br]); session.Unlock()
ReadFromSession_Append(s) ==
    /\ reader[s].pc = "append"
    /\ sessions[s].lock = Free
    /\ sessions' = [sessions EXCEPT ![s].Buf = @ \o Chunk(reader[s].nread)]
    /\ reader' = [reader EXCEPT ![s].pc = "publish", ![s].napp = @ + 1]
    /\ UNCHANGED <<tpc, ti, ctxDone, cause, wg, errs, result, failed, streamFailed,
                   recv, send, registry, wire, written, nrecv, fps, chunkMax, ids, parseVars>>

\* --------------------------------------------------------------- SendData
\* a select that only the shared context wakes, not the end of the stream
SendData_Done_CtxOnly(p) ==
    /\ send[p].pc = "select"
    /\ ctxDone
    /\ send' = [send EXCEPT ![p].pc = "done", ![p].ret = "nil"]
    /\ wg' = wg - 1
    /\ UNCHANGED <<tpc, ti, ctxDone, cause, errs, result, failed, streamFailed, recv,
                   registry, sessions, reader, wire, written, nrecv, fps, chunkMax, ids, parseVars>>

\* case <-stream.Context().Done(): Err() is Canceled, return nil
SendData_Done(p) ==
    /\ send[p].pc = "select"
    /\ StreamDone(p)
    /\ send' = [send EXCEPT ![p].pc = "done", ![p].ret = "nil"]
    /\ wg' = wg - 1
    /\ UNCHANGED <<tpc, ti, ctxDone, cause, errs, result, failed, streamFailed, recv,
                   registry, sessions, reader, wire, written, nrecv, fps, chunkMax, ids, parseVars>>

\* case session := <-sessions: meets the sessionsOut <- session of the
\* reader of a Session of this pair (the channel is unbuffered)
SendData_Receive(p, s) ==
    /\ send[p].pc = "select"
    /\ s[2] = p
    /\ reader[s].pc = "publish"
    /\ send' = [send EXCEPT ![p].pc = "lock", ![p].s = s]
    /\ reader' = [reader EXCEPT ![s].pc = IF reader[s].last = "data" THEN "read" ELSE "done"]
    /\ UNCHANGED <<tpc, ti, ctxDone, cause, wg, errs, result, failed, streamFailed,
                   recv, registry, sessions, wire, written, nrecv, fps, chunkMax, ids, parseVars>>

\* session.Lock()
SendData_Lock(p) ==
    /\ send[p].pc = "lock"
    /\ sessions[send[p].s].lock = Free
    /\ sessions' = [sessions EXCEPT ![send[p].s].lock = <<"send", p>>]
    /\ send' = [send EXCEPT ![p].pc = "drain"]
    /\ UNCHANGED <<tpc, ti, ctxDone, cause, wg, errs, result, failed, streamFailed,
                   recv, registry, reader, wire, written, nrecv, fps, chunkMax, ids, parseVars>>

\* a drain that copies the buffer without consuming it
SendData_Drain_KeepsBuffer(p) ==
    /\ send[p].pc = "drain"
    /\ LET s == send[p].s IN
       /\ send' = [send EXCEPT ![p].pc = "send",
                     ![p].resp = [id |-> s[1], data |-> sessions[s].Buf,
                                  close |-> ~sessions[s].Open]]
       /\ sessions' = [sessions EXCEPT ![s].lock = Free]
    /\ UNCHANGED <<tpc, ti, ctxDone, cause, wg, errs, result, failed, streamFailed,
                   recv, registry, reader, wire, written, nrecv, fps, chunkMax, ids, parseVars>>

\* a drain that goes on to stream.Send without session.Unlock()
SendData_Drain_KeepsLock(p) ==
    /\ send[p].pc = "drain"
    /\ LET s == send[p].s IN
       /\ send' = [send EXCEPT ![p].pc = "send",
                     ![p].resp = [id |-> s[1], data |-> sessions[s].Buf,
                                  close |-> ~sessions[s].Open]]
       /\ sessions' = [sessions EXCEPT ![s].Buf = <<>>]
    /\ UNCHANGED <<tpc, ti, ctxDone, cause, wg, errs, result, failed, streamFailed,
                   recv, registry, reader, wire, written, nrecv, fps, chunkMax, ids, parseVars>>

\* bys := Buf.Len(); Buf.Read(bytes) empties the buffer; resp carries the
\* bytes and !session.Open; session.Unlock()
SendData_Drain(p) ==
    /\ send[p].pc = "drain"
    /\ LET s == send[p].s IN
       /\ send' = [send EXCEPT ![p].pc = "send",
                     ![p].resp = [id |-> s[1], data |-> sessions[s].Buf,
                                  close |-> ~sessions[s].Open]]
       /\ sessions' = [sessions EXCEPT ![s].Buf = <<>>, ![s].lock = Free]
    /\ UNCHANGED <<tpc, ti, ctxDone, cause, wg, errs, result, failed, streamFailed,
                   recv, registry, reader, wire, written, nrecv, fps, chunkMax, ids, parseVars>>

\* stream.Send(resp) returns nil
SendData_Send(p) ==
    /\ send[p].pc = "send"
    /\ ~StreamDone(p)
    /\ wire' = [wire EXCEPT ![p] = Append(@,
                   [id |-> send[p].resp.id, data |-> send[p].resp.data,
                    close |-> send[p].resp.close, ok |-> TRUE, by |-> "SendData"])]
    /\ send' = [send EXCEPT ![p].pc = "select", ![p].s = NoSession, ![p].resp = NoFrame]
    /\ UNCHANGED <<tpc, ti, ctxDone, cause, wg, errs, result, failed, streamFailed,
                   recv, registry, sessions, reader, written, nrecv, fps, chunkMax, ids, parseVars>>

\* stream.Send(resp) returns an error (the stream is done): return err;
\* the goroutine of Tunnel appends it to errs and calls wg.Done()
SendData_SendErr(p) ==
    /\ send[p].pc = "send"
    /\ StreamDone(p)
    /\ wire' = [wire EXCEPT ![p] = Append(@,
                   [id |-> send[p].resp.id, data |-> send[p].resp.data,
                    close |-> send[p].resp.close, ok |-> FALSE, by |-> "SendData"])]
    /\ send' = [send EXCEPT ![p].pc = "done", ![p].ret = "SendErr",
                            ![p].s = NoSession, ![p].resp = NoFrame]
    /\ errs' = errs \cup {<<"SendErr", p>>}
    /\ failed' = failed \cup {<<"send", p, ~streamFailed[p]>>}
    /\ wg' = wg - 1
    /\ UNCHANGED <<tpc, ti, ctxDone, cause, result, streamFailed,
                   recv, registry, sessions, reader, written, nrecv, fps, chunkMax, ids, parseVars>>

\* ------------------------------------------------------------------ Next
Next ==
    \/ ExternalCancel
    \/ Tunnel_Dial
    \/ Tunnel_Launch
    \/ Tunnel_InitFail
    \/ Tunnel_Wait
    \/ \E p \in Pairs :
          \/ StreamFail(p)
          \/ ReceiveData_RecvErr(p)
          \/ ReceiveData_Recv(p)
          \/ ReceiveData_Cancelled(p)
          \/ ReceiveData_Lookup(p)
          \/ ReceiveData_DialOk(p)
          \/ ReceiveData_DialFail(p)
          \/ ReceiveData_Reply(p)
          \/ handleStreamData_Closed(p)
          \/ handleStreamData_Empty(p)
          \/ handleStreamData_Data(p)
          \/ handleStreamData_Lock(p)
          \/ handleStreamData_Write(p)
          \/ handleStreamData_WriteErr(p)
          \/ SendData_Done(p)
          \/ SendData_Lock(p)
          \/ SendData_Drain(p)
          \/ SendData_Send(p)
          \/ SendData_SendErr(p)
          \/ \E s \in Sess : SendData_Receive(p, s)
    \/ \E s \in Sess :
          \/ ReadFromSession_Read(s)
          \/ ReadFromSession_ReadErr(s)
          \/ ReadFromSession_Select(s)
          \/ ReadFromSession_Append(s)

Spec == Init /\ [][Next]_vars

SpecPairs == InitPairs /\ [][Next]_vars

SpecSessions == InitSessions /\ [][Next]_vars

SpecShared == InitShared /\ [][Next]_vars

NextParse ==
    \/ ParsePorts_InvalidFormat
    \/ ParsePorts_LocalErr
    \/ ParsePorts_RemoteErr
    \/ ParsePorts_RemoteZero
    \/ ParsePorts_Append
    \/ ParsePorts_Return

SpecParse == InitParse /\ [][NextParse]_vars

\* the steps a goroutine takes by itself once it can: every call returns
\* (a Recv or a conn.Read only when there is something to return, and no
\* frame, chunk, cancellation or failure is ever bound to come)
TunnelStep == Tunnel_Dial \/ Tunnel_Launch \/ Tunnel_InitFail \/ Tunnel_Wait
ReceiveDataStep(p) ==
    \/ ReceiveData_RecvErr(p)
    \/ ReceiveData_Cancelled(p)
    \/ ReceiveData_Lookup(p)
    \/ ReceiveData_DialOk(p)
    \/ ReceiveData_DialFail(p)
    \/ ReceiveData_Reply(p)
    \/ handleStreamData_Closed(p)
    \/ handleStreamData_Empty(p)
    \/ handleStreamData_Data(p)
    \/ handleStreamData_Lock(p)
    \/ handleStreamData_Write(p)
    \/ handleStreamData_WriteErr(p)
SendDataStep(p) ==
    \/ SendData_Done(p)
    \/ SendData_Lock(p)
    \/ SendData_Drain(p)
    \/ SendData_Send(p)
    \/ SendData_SendErr(p)
    \/ \E s \in Sess : SendData_Receive(p, s)
ReadFromSessionStep(s) == ReadFromSession_Select(s) \/ ReadFromSession_Append(s)

Fairness ==
    /\ WF_vars(TunnelStep)
    /\ \A p \in Pairs : WF_vars(ReceiveDataStep(p)) /\ WF_vars(SendDataStep(p))
    /\ \A s \in Sess : WF_vars(ReadFromSessionStep(s))

FairSpec == Spec /\ Fairness
FairSpecPairs == SpecPairs /\ Fairness

\* ---------------------------------------------------------------- claims
RECURSIVE Concat(_)
Concat(fs) == IF fs = <<>> THEN <<>> ELSE Head(fs).data \o Concat(Tail(fs))

\* the frames SendData handed to stream.Send for Session s, in send order
FramesOf(s) == SelectSeq(wire[s[2]], LAMBDA f : f.id = s[1] /\ f.by = "SendData")
Handed(s) == Concat(FramesOf(s))
\* the bytes SendData drained from s that it has not handed to Send yet
Drained(s) ==
    IF send[s[2]].pc = "send" /\ send[s[2]].s = s THEN send[s[2]].resp.data ELSE <<>>
\* the reader of s dropped the last chunk it read (case <-session.Context.Done())
Dropped(s) == reader[s].pc = "done" /\ reader[s].last = "data"
\* nothing of s is on its way: the reader returned, the buffer is empty and
\* SendData holds no frame of s
Quiescent(s) ==
    /\ sessions[s].exists
    /\ reader[s].pc = "done"
    /\ sessions[s].Buf = <<>>
    /\ send[s[2]].s # s

\* C1 (as stated): once the reader of a Session has returned and everything
\* buffered went out, the payloads SendData sent for it, concatenated in send
\* order, are the chunks ReadFromSession read, concatenated in read order.
C1_SentEqualsRead ==
    \A s \in Sess : Quiescent(s) => Handed(s) = ReadBytes(reader[s].nread)

\* C1 (amended): the payloads handed to stream.Send for a Session, then the
\* bytes drained and not yet sent, then the buffer, are exactly the chunks
\* ReadFromSession appended, in read order: nothing appended is lost,
\* reordered or sent twice.  Every chunk read is appended, except the last
\* one while it is on its way to the buffer or when the reader found
\* session.Context done and dropped it.
C1_Conservation ==
    \A s \in Sess : sessions[s].exists =>
        /\ Handed(s) \o Drained(s) \o sessions[s].Buf = ReadBytes(reader[s].napp)
        /\ \/ reader[s].napp = reader[s].nread
           \/ /\ reader[s].napp = reader[s].nread - 1
              /\ \/ reader[s].pc \in {"check", "append"}
                 \/ Dropped(s) /\ sessions[s].done

\* C1 witness: two chunks were appended before one drain took both, and a
\* later publish of the same Session drained nothing
C1_Witness ==
    \E s \in Sess :
        /\ Len(FramesOf(s)) >= 2
        /\ FramesOf(s)[1].data = <<1, 2>>
        /\ FramesOf(s)[2].data = <<>>

\* C2 (as stated): of the frames SendData sends for a Session whose reader
\* got io.EOF, only the last one has shouldClose=true, and that one is empty
\* (the bytes read before the EOF went out with shouldClose=false).
C2_OneCloseFrame ==
    \A s \in Sess : reader[s].last = "eof" =>
        \A k \in 1..Len(FramesOf(s)) :
            FramesOf(s)[k].close =>
                k = Len(FramesOf(s)) /\ FramesOf(s)[k].data = <<>>

\* C3 (as stated): on every stream, after a frame with shouldClose=true went
\* out for an id, no frame with a non-empty payload goes out for that id.
C3_NoPayloadAfterClose ==
    \A p \in Pairs : \A j, k \in 1..Len(wire[p]) :
        (/\ j < k
         /\ wire[p][j].ok /\ wire[p][k].ok
         /\ wire[p][j].id = wire[p][k].id
         /\ wire[p][j].close)
        => wire[p][k].data = <<>>

\* the close reply ReceiveData builds for the frame m it holds
CloseReply(p, delivered) ==
    [id |-> recv[p].m.id, data |-> <<>>, close |-> TRUE,
     ok |-> delivered, by |-> "ReceiveData"]

\* C4: when the dial for a frame of an unknown id fails, ReceiveData hands
\* exactly one frame to st.Send, with that id, shouldClose=true and no
\* payload (it goes out unless the stream is done), and goes back to Recv;
\* neither step registers a Session, starts a reader or writes to a
\* connection.
C4_DialFailureReply ==
    [][\A p \in Pairs :
          /\ (recv[p].pc = "dial" /\ recv'[p].pc # "dial" /\ recv'[p].s = NoSession)
             => /\ recv'[p].pc = "reply"
                /\ UNCHANGED <<registry, sessions, reader, written, wire>>
          /\ (recv[p].pc = "reply" /\ recv'[p] # recv[p])
             => /\ recv'[p].pc = "recv"
                /\ wire'[p] = Append(wire[p], CloseReply(p, ~StreamDone(p)))
                /\ UNCHANGED <<registry, sessions, reader, written>>
      ]_vars

\* C4 witness: a close reply went out on a live stream and the id is still
\* not in the registry
C4_Witness ==
    \E p \in Pairs : \E k \in 1..Len(wire[p]) :
        /\ wire[p][k] = [id |-> "a", data |-> <<>>, close |-> TRUE,
                         ok |-> TRUE, by |-> "ReceiveData"]
        /\ registry["a"] = NoSession
        /\ recv[p].pc = "recv"

LoopsOver(p) == recv[p].pc \in {"none", "done"} /\ send[p].pc \in {"none", "done"}
InitFailures == {f \in failed : f[1] \in {"InitErr", "InitSendErr"}}

\* C5 (as stated): when Tunnel has returned after a plain external cancel
\* that no failure preceded, it returned nil (at most the bare cause, which
\* xerrors may turn into nil: never a wrapped failure).
C5_CleanCancelNil ==
    (/\ tpc = "returned"
     /\ cause = "Canceled"
     /\ \A f \in failed : f[3])
    => result.kind \in {"nil", "bare"}

\* the error Tunnel returned carries the failure f
Reported(f) ==
    CASE f[1] \in {"InitErr", "InitSendErr"} -> result.cause = f[1]
      [] f[1] = "dial" -> result.cause = "DialErr"
      [] f[1] = "send" -> <<"SendErr", f[2]>> \in result.errs
      [] f[1] = "recv" -> <<"RecvErr", f[2]>> \in result.errs

\* C6 (as stated): when Tunnel has returned, every failure that no
\* cancellation caused (an initiation, a duplex send or a duplex receive
\* that failed) makes the returned error non-nil (at least the bare cause,
\* if xerrors keeps it) and is carried by it.
C6_FailureReported ==
    tpc = "returned" =>
        \A f \in failed : ~f[3] => result.kind \in {"err", "bare"} /\ Reported(f)

\* C7: after the shared context is cancelled, every launched ReceiveData and
\* SendData terminates and Tunnel returns.
C7_CancelTerminates ==
    ctxDone ~> (tpc = "returned" /\ \A p \in Pairs : LoopsOver(p))

\* C7 witness: a plain cancel found both pairs running, one of them with a
\* session, and Tunnel has returned
C7_Witness ==
    /\ tpc = "returned"
    /\ cause = "Canceled"
    /\ \A p \in Pairs : recv[p].pc = "done" /\ send[p].pc = "done"
    /\ \E s \in Sess : sessions[s].exists

\* C8: when Tunnel has returned, no ReceiveData or SendData it launched is
\* still running.
C8_ReturnedAfterLoops ==
    tpc = "returned" => \A p \in Pairs : LoopsOver(p)

\* C8 witness: Tunnel returned after the second pair failed to initiate,
\* and the loops of the first pair, which had sent a frame, are over
C8_Witness ==
    /\ tpc = "returned"
    /\ \E f \in InitFailures : f[2] = 2
    /\ recv[1].pc = "done" /\ send[1].pc = "done"
    /\ wire[1] # <<>>

\* C9 (as stated): once the initiation of a pair has failed, the shared
\* context is done with that failure as its cause, and that pair and the
\* later ones have no loop.
C9_InitFailureCause ==
    \A f \in InitFailures :
        /\ ctxDone
        /\ cause = f[1]
        /\ \A q \in Pairs : q >= f[2] => recv[q].pc = "none" /\ send[q].pc = "none"

\* C9 (amended): once the initiation of a pair has failed, the shared
\* context is done, with that failure as its cause unless it was cancelled
\* before (the earlier cause, a plain cancel, stays); that pair and the later
\* ones have no loop; and Tunnel returns only when the loops of the earlier
\* pairs are over.
C9_InitFailureCancels ==
    \A f \in InitFailures :
        /\ ctxDone
        /\ IF f[3] THEN cause = "Canceled" ELSE cause = f[1]
        /\ \A q \in Pairs : q >= f[2] => recv[q].pc = "none" /\ send[q].pc = "none"
        /\ tpc = "returned" =>
              \A q \in Pairs : q < f[2] => recv[q].pc = "done" /\ send[q].pc = "done"

\* C9 witness: the second pair failed to initiate on a live context, the
\* failure is the cause, and the loops of the first pair are over
C9_Witness ==
    /\ <<"InitSendErr", 2, FALSE>> \in failed
    /\ cause = "InitSendErr"
    /\ recv[1].pc = "done" /\ send[1].pc = "done"
    /\ tpc = "returned"
\* ------------------------------------------------------------------- C10
\* the well-formed specs, read off the string: REMOTE, LOCAL:REMOTE, :REMOTE
Colons(s) == {i \in 1..Len(s) : s[i] = ":"}
Before(s) == SubSeq(s, 1, (CHOOSE i \in Colons(s) : TRUE) - 1)
After(s) == SubSeq(s, (CHOOSE i \in Colons(s) : TRUE) + 1, Len(s))
IsPort(t) ==
    /\ t # <<>>
    /\ \A i \in 1..Len(t) : t[i] \in Digits
    /\ Value(t) <= 65535
IsBare(s) == Colons(s) = {} /\ IsPort(s) /\ Value(s) >= 1
IsAnyLocal(s) ==
    /\ Cardinality(Colons(s)) = 1
    /\ Before(s) = <<>>
    /\ IsPort(After(s)) /\ Value(After(s)) >= 1
IsExplicit(s) ==
    /\ Cardinality(Colons(s)) = 1
    /\ IsPort(Before(s))
    /\ IsPort(After(s)) /\ Value(After(s)) >= 1
WellFormed(s) == IsBare(s) \/ IsAnyLocal(s) \/ IsExplicit(s)
Expected(s) ==
    IF IsBare(s) THEN [Local |-> Value(s), Remote |-> Value(s)]
    ELSE IF IsAnyLocal(s) THEN [Local |-> 0, Remote |-> Value(After(s))]
    ELSE [Local |-> Value(Before(s)), Remote |-> Value(After(s))]

\* C10: when every spec given is well-formed, ParsePorts returns a nil error
\* and one ForwardedPort per spec in input order: REMOTE gives local =
\* remote = REMOTE, LOCAL:REMOTE the two values, :REMOTE local 0; every
\* remote port returned is in 1..65535
C10_WellFormedParsed ==
    (parsed # NotParsed /\ \A k \in 1..Len(ports) : WellFormed(ports[k]))
        => /\ parsed.err = NoErr
           /\ Len(parsed.forwards) = Len(ports)
           /\ \A k \in 1..Len(ports) :
                 /\ parsed.forwards[k] = Expected(ports[k])
                 /\ parsed.forwards[k].Remote \in 1..65535
                 /\ parsed.forwards[k].Local \in 0..65535

\* ParsePorts has returned for MaxSpecs well-formed specs, a :REMOTE, a bare
\* REMOTE and a LOCAL:REMOTE among them
C10_Witness ==
    /\ parsed # NotParsed
    /\ Len(ports) = MaxSpecs
    /\ \A k \in 1..Len(ports) : WellFormed(ports[k])
    /\ \E k \in 1..Len(ports) : IsAnyLocal(ports[k])
    /\ \E k \in 1..Len(ports) : IsBare(ports[k]) \/ IsExplicit(ports[k])

\* ------------------------------------------------------------------- C11
\* the first spec of the input that is not well-formed (0 when all are)
FirstOffending ==
    IF \A k \in 1..Len(ports) : WellFormed(ports[k]) THEN 0
    ELSE CHOOSE k \in 1..Len(ports) :
             /\ ~WellFormed(ports[k])
             /\ \A j \in 1..(k - 1) : WellFormed(ports[j])

\* the error the code gives for an offending spec, read off the string
Offence(s) ==
    IF Cardinality(Colons(s)) > 1 THEN "format"
    ELSE LET l == IF Colons(s) = {} THEN s
                  ELSE IF Before(s) = <<>> THEN <<"0">> ELSE Before(s)
             r == IF Colons(s) = {} THEN s ELSE After(s)
         IN IF ~IsPort(l) THEN "local"
            ELSE IF ~IsPort(r) THEN "remote"
            ELSE "zero"

\* C11: when some spec has more than one colon, a port that is not a number
\* of 16 bits, or a remote port 0, ParsePorts returns no pairs and the error
\* of the first such spec in input order; an error never comes with pairs,
\* and the error is nil only when every spec is well-formed
C11_FirstErrorNoPairs ==
    parsed # NotParsed =>
        /\ FirstOffending # 0 =>
              /\ parsed.forwards = <<>>
              /\ parsed.err # NoErr
              /\ parsed.err.spec = FirstOffending
              /\ parsed.err.kind = Offence(ports[FirstOffending])
        /\ parsed.err # NoErr => parsed.forwards = <<>>
        /\ parsed.err = NoErr => FirstOffending = 0

\* ParsePorts returned the error of a spec that follows a well-formed one
C11_Witness ==
    /\ parsed # NotParsed
    /\ FirstOffending > 1
    /\ parsed.err # NoErr
    /\ forwards # <<>>

\* ------------------------------------------------------------------- C12
\* C12: while SendData is inside stream.Send, or back at its select, or has
\* returned, it holds the lock of no Session: the lock of the Session it
\* drained was released before the send
C12_NoLockAcrossSend ==
    \A p \in Pairs :
        send[p].pc \in {"send", "select", "done"}
            => \A s \in Sess : sessions[s].lock # <<"send", p>>

\* SendData is inside stream.Send with the bytes it drained while the reader
\* of the same Session has appended the next chunk to the buffer
C12_Witness ==
    \E p \in Pairs :
        /\ send[p].pc = "send"
        /\ send[p].resp.data # <<>>
        /\ sessions[send[p].s].Buf # <<>>
        /\ sessions[send[p].s].lock = Free

\* ------------------------------------------------------------------- C13
\* the task that holds the lock of s takes the step
HolderSteps(s) ==
    LET h == sessions[s].lock IN
    /\ h # Free
    /\ h[1] = "send" => send'[h[2]] # send[h[2]]
    /\ h[1] = "recv" => recv'[h[2]] # recv[h[2]]

\* C13 (as stated): every step that writes the open flag or the buffer of a
\* Session, or that reads the open flag to decide (handleStreamData's check,
\* SendData's drain), is a step of the task that holds the Session's lock.
\* ReadFromSession_Append and SendData_Drain take and hold the lock
\* themselves; the other accesses are measured against the lock's state.
C13_AccessUnderLock ==
    [][\A s \in Sess :
          (/\ sessions[s].exists
           /\ sessions'[s].exists
           /\ \/ sessions'[s].Open # sessions[s].Open
              \/ /\ sessions'[s].Buf # sessions[s].Buf
                 /\ reader'[s].napp = reader[s].napp)
          => HolderSteps(s)
      ]_vars

\* ------------------------------------------------------------------- C14
\* the Session locks a task holds
LocksOf(task) == {s \in Sess : sessions[s].lock = task}

\* C14 (as stated): a task that is inside a blocking I/O call holds no
\* Session lock: ReceiveData inside st.Recv, st.Send of the close reply, the
\* local dial or session.Conn.Write, and SendData inside stream.Send
\* (ReadFromSession takes the lock only after conn.Read has returned).
C14_NoLockAcrossIO ==
    \A p \in Pairs :
        /\ recv[p].pc \in {"recv", "dial", "reply", "write"}
              => LocksOf(<<"recv", p>>) = {}
        /\ send[p].pc = "send" => LocksOf(<<"send", p>>) = {}

\* ------------------------------------------------------------------- C15
\* a st.Recv or a stream.Send of pair p has failed
DuplexFailed(p) == \E f \in failed : f[1] \in {"recv", "send"} /\ f[2] = p

\* C15: once a Recv or a Send on the duplex stream of a pair has failed,
\* ReceiveData and SendData of that pair both return, cancelled or not
C15_FailureTerminatesPair ==
    \A p \in Pairs : DuplexFailed(p) ~> LoopsOver(p)

\* both loops of a pair have returned after its stream broke, and the shared
\* context was never cancelled
C15_Witness ==
    \E p \in Pairs :
        /\ DuplexFailed(p)
        /\ streamFailed[p]
        /\ ~ctxDone
        /\ recv[p].pc = "done" /\ send[p].pc = "done"

\* ------------------------------------------------------------------- C16
\* the steps in which a local failure on Session s shows: conn.Read returns
\* an error other than io.EOF, or session.Conn.Write returns an error
ReadErrorStep(s) ==
    /\ reader[s].pc = "read"
    /\ reader'[s].pc = "publish"
    /\ reader'[s].last = "err"
WriteErrorStep(s) ==
    \E p \in Pairs :
        /\ recv[p].pc = "write" /\ recv[p].s = s
        /\ recv'[p].pc # "write"
        /\ written'[s] = written[s]
\* the steps of a failed local dial: the failure and the close reply
DialFailureStep ==
    \E p \in Pairs :
        \/ recv[p].pc = "dial" /\ recv'[p].pc # "dial" /\ recv'[p].s = NoSession
        \/ recv[p].pc = "reply" /\ recv'[p] # recv[p]
\* no loop returns and the shared context is as it was
LoopsGoOn ==
    /\ ctxDone' = ctxDone /\ cause' = cause
    /\ \A p \in Pairs :
          /\ recv'[p].pc = "done" => recv[p].pc = "done"
          /\ send'[p].pc = "done" => send[p].pc = "done"
OthersUntouched(S) ==
    \A t \in Sess \ S : sessions'[t] = sessions[t] /\ written'[t] = written[t]

\* C16: a step in which a local dial fails, or a local read or write on a
\* Session fails, returns from no ReceiveData or SendData, leaves the shared
\* context alone and changes neither the open flag, the buffer nor the
\* connection of any other Session; and ReceiveData returns only from a
\* failed st.Recv or from the Done case of its select
C16_LocalFailureContained ==
    [][/\ DialFailureStep => LoopsGoOn /\ OthersUntouched({})
       /\ \A s \in Sess :
             (ReadErrorStep(s) \/ WriteErrorStep(s))
                 => LoopsGoOn /\ OthersUntouched({s})
       /\ \A p \in Pairs :
             (recv[p].pc # "done" /\ recv'[p].pc = "done")
                 => /\ StreamDone(p)
                    /\ \/ recv[p].pc = "recv" /\ recv'[p].ret = "RecvErr"
                       \/ recv[p].pc = "select"
      ]_vars

\* a local read failed on one Session while another Session is open with
\* its connection, both loops of the pair are running and nothing is
\* cancelled
C16_Witness ==
    \E s, t \in Sess :
        /\ s # t
        /\ reader[s].last = "err"
        /\ sessions[t].exists /\ sessions[t].Open /\ ~sessions[t].closed
        /\ recv[s[2]].pc \notin {"none", "done"}
        /\ send[s[2]].pc \notin {"none", "done"}
        /\ ~ctxDone /\ ~streamFailed[s[2]]

\* ------------------------------------------------------------------- C17
\* C17 (as stated): when SendData returns from the Done case of its select
\* with the shared context cancelled, it returns nil after a plain external
\* cancel and the cancellation cause otherwise; so after Tunnel cancelled
\* with an initiation failure, SendData of an earlier pair returns it.
C17_SendDataReturnsCause ==
    [][\A p \in Pairs :
          (send[p].pc = "select" /\ send'[p].pc = "done" /\ ctxDone)
              => send'[p].ret = IF cause = "Canceled" THEN "nil" ELSE cause
      ]_vars

\* ------------------------------------------------------------------- C18
\* C18 (as stated): when ReceiveData returns after a plain external cancel
\* of the shared context, waiting in st.Recv or about to, its stream not
\* having failed, it returns what st.CloseSend() gave (nil for a clean
\* half-close), never the error of a failed st.Recv.
C18_CancelNoRecvError ==
    [][\A p \in Pairs :
          (/\ recv[p].pc \in {"recv", "select"}
           /\ recv'[p].pc = "done"
           /\ ctxDone /\ cause = "Canceled" /\ ~streamFailed[p])
              => recv'[p].ret \in {"nil", "CloseSendErr"}
      ]_vars

\* ------------------------------------------------------------------- C19
\* C19: when ReceiveData finds the Session of a frame with shouldClose=true
\* in the registry, the Session's open flag is false when handleStreamData
\* gets the frame; the flag stays false while handleStreamData holds the
\* frame, and handleStreamData then closes the connection, writes nothing
\* of the payload and goes back to Recv
C19_RemoteCloseDropsPayload ==
    [][\A p \in Pairs :
          /\ (recv[p].pc = "select" /\ recv'[p].pc = "handle" /\ recv[p].m.close)
                => ~sessions'[recv'[p].s].Open
          /\ (recv[p].pc = "handle" /\ ~sessions[recv[p].s].Open)
                => /\ ~sessions'[recv[p].s].Open
                   /\ written' = written
                   /\ recv'[p] # recv[p]
                         => /\ recv'[p].pc = "recv"
                            /\ sessions'[recv[p].s].closed
      ]_vars

\* handleStreamData holds a frame with shouldClose=true and a payload for a
\* Session that an earlier frame created and wrote to: the lookup has set
\* the open flag false (the reader has seen no end and no error), and the
\* connection is still to be closed
C19_Witness ==
    \E p \in Pairs :
        /\ recv[p].pc = "handle"
        /\ recv[p].m.close /\ recv[p].m.data # <<>>
        /\ ~sessions[recv[p].s].Open
        /\ ~sessions[recv[p].s].closed
        /\ written[recv[p].s] = 1
        /\ reader[recv[p].s].last \notin {"eof", "err"}

\* ------------------------------------------------------------------- C20
\* a Session with id i was created and its open flag is false
ClosedId(i) ==
    \E q \in Pairs : sessions[<<i, q>>].exists /\ ~sessions[<<i, q>>].Open

\* C20: the open flag of a Session, once false, stays false; and a frame
\* that ReceiveData looks up when the Session of its id has the flag false
\* goes to handleStreamData with that Session (no dial, no new Session, no
\* new reader), which closes it and goes back to Recv: nothing is written
\* to a connection, the registry is unchanged and the loop does not return
\* (unless its stream is done)
C20_ClosedStaysClosed ==
    [][/\ \A s \in Sess :
             (sessions[s].exists /\ ~sessions[s].Open)
                 => sessions'[s].exists /\ ~sessions'[s].Open
       /\ \A p \in Pairs :
             /\ (/\ recv[p].pc = "select"
                 /\ ClosedId(recv[p].m.id)
                 /\ recv'[p] # recv[p])
                   => /\ \/ /\ recv'[p].pc = "handle"
                            /\ recv'[p].s[1] = recv[p].m.id
                            /\ ~sessions'[recv'[p].s].Open
                         \/ recv'[p].pc = "done" /\ StreamDone(p)
                      /\ UNCHANGED <<registry, written>>
                      /\ \A t \in Sess : /\ sessions'[t].exists = sessions[t].exists
                                         /\ reader'[t].pc = "none" <=> reader[t].pc = "none"
             /\ (/\ recv[p].pc = "handle"
                 /\ ~sessions[recv[p].s].Open
                 /\ recv'[p] # recv[p])
                   => /\ recv'[p].pc = "recv"
                      /\ UNCHANGED <<registry, written>>
                      /\ \A t \in Sess : /\ sessions'[t].exists = sessions[t].exists
                                         /\ reader'[t].pc = "none" <=> reader[t].pc = "none"
      ]_vars

\* handleStreamData holds a frame with a payload for a Session that an
\* earlier frame already closed: the lookup found it and dialled nothing
C20_Witness ==
    \E p \in Pairs :
        /\ recv[p].pc = "handle"
        /\ recv[p].m.data # <<>>
        /\ sessions[recv[p].s].closed
        /\ ~sessions[recv[p].s].Open

\* ------------------------------------------------------------------- C21
\* the open flag of s is false, its reader has returned, its buffer is empty
\* and SendData has sent everything it drained from it, the frame with
\* shouldClose=true included
Flushed(s) ==
    /\ Quiescent(s)
    /\ ~sessions[s].Open
    /\ \E k \in 1..Len(FramesOf(s)) : FramesOf(s)[k].close /\ FramesOf(s)[k].ok

\* C21 (as stated): a Session whose open flag is false and whose buffered
\* bytes have all been drained and sent eventually has its local connection
\* closed.
C21_FlushedEventuallyClosed ==
    \A s \in Sess : Flushed(s) ~> sessions[s].closed

\* ------------------------------------------------------------------- C22
\* C22 (as stated): when conn.Read of a Session returns after the shared
\* context is done and SendData of the pair has returned, the reader does
\* not go on to publish the Session: it is never left at sessionsOut <-
\* session, which nobody receives from any more.
C22_NoPublishAfterSendDone ==
    [][\A s \in Sess :
          (/\ ctxDone
           /\ send[s[2]].pc = "done"
           /\ reader[s].pc = "read"
           /\ reader'[s].pc # "read")
              => reader'[s].pc # "publish"
      ]_vars

\* ------------------------------------------------------------------- C23
\* the Sessions created for id i: each stands for one successful local dial
SessionsOf(i) == {s \in Sess : s[1] = i /\ sessions[s].exists}

\* C23 (as stated): over all forwarding pairs, at most one Session is ever
\* created, and at most one local connection dialled successfully, for a
\* session id.
C23_OneSessionPerId ==
    \A i \in Ids : Cardinality(SessionsOf(i)) <= 1

\* ------------------------------------------------------------------- C24
\* C24 (as stated): on the stream of a pair, ReceiveData is never at the
\* st.Send of a dial-failure close reply while SendData is at the
\* stream.Send of a session frame.
C24_OneSenderPerStream ==
    \A p \in Pairs : ~(recv[p].pc = "reply" /\ send[p].pc = "send")

\* ------------------------------------------------------------------- C25
\* C25 (as stated): ReceiveData of a pair writes the payload of a frame only
\* to the connection of a Session that the same pair created (dialled to
\* that pair's local port), and SendData of a pair only takes, drains and
\* sends Sessions that the ReceiveData of its pair created.
C25_PairsIsolated ==
    [][\A p \in Pairs :
          /\ (/\ recv[p].pc = "write"
              /\ recv'[p].pc # "write"
              /\ written'[recv[p].s] # written[recv[p].s])
                => recv[p].s[2] = p
          /\ send'[p].s # NoSession => send'[p].s[2] = p
      ]_vars

====
